---- MODULE Spec2Model ----
(***************************************************************************)
(* A model of src/src/switcher.js: the frame codec (hex-string building,   *)
(* Buffer conversions, CRC signing), the TCP session machine of class      *)
(* Switcher (login, commands, close) and the UDP side (discover and the    *)
(* status listener).                                                       *)
(*                                                                         *)
(* JavaScript strings are sequences of character codes.  JavaScript null   *)
(* and undefined are the one-element sequences Null and Undefined, whose   *)
(* element is no character code.  Buffers are sequences of bytes 0..255.   *)
(***************************************************************************)
EXTENDS Integers, Sequences, FiniteSets, TLC

\* ------------------------------------------------------------------------
\* JavaScript values and strings
\* ------------------------------------------------------------------------

Null == << -1 >>

Undefined == << -2 >>

\* the characters of "null" and "undefined", as string concatenation prints them
StrNull == <<110, 117, 108, 108>>

StrUndefined == <<117, 110, 100, 101, 102, 105, 110, 101, 100>>

\* ToString of a value inside a string concatenation ("abc" + v)
ToStr(v) == IF v = Null THEN StrNull ELSE IF v = Undefined THEN StrUndefined ELSE v

\* JavaScript truthiness of a string-or-null value
Truthy(v) == v # Null /\ v # Undefined /\ v # << >>

\* String.prototype.substr(start, length), start counted from 0
Substr(s, start, n) ==
    IF start >= Len(s) THEN << >>
    ELSE SubSeq(s, start + 1, IF start + n > Len(s) THEN Len(s) ELSE start + n)

Zeros(n) == [i \in 1..n |-> 0]

Rep(n, x) == [i \in 1..n |-> x]

\* one lower-case hex digit of Buffer.toString('hex')
HexDigit(n) == IF n < 10 THEN 48 + n ELSE 87 + n

\* Buffer.prototype.toString('hex')
ToHex(bytes) ==
    [i \in 1..(2 * Len(bytes)) |->
        IF i % 2 = 1 THEN HexDigit(bytes[(i + 1) \div 2] \div 16)
                     ELSE HexDigit(bytes[i \div 2] % 16)]

\* value of one hex character, -1 when it is none
Unhex(c) ==
    IF c >= 48 /\ c <= 57 THEN c - 48
    ELSE IF c >= 97 /\ c <= 102 THEN c - 87
    ELSE IF c >= 65 /\ c <= 70 THEN c - 55
    ELSE -1

\* number of leading character pairs of s that are both hex digits
HexPrefixPairs(s) ==
    LET n   == Len(s) \div 2
        bad == {i \in 1..n : Unhex(s[2 * i - 1]) < 0 \/ Unhex(s[2 * i]) < 0}
    IN  IF bad = {} THEN n ELSE (CHOOSE i \in bad : \A j \in bad : i <= j) - 1

\* Buffer.from(s, 'hex'): decoding stops at the first pair that is not hex,
\* and a trailing single character is dropped
FromHex(s) ==
    [i \in 1..HexPrefixPairs(s) |-> 16 * Unhex(s[2 * i - 1]) + Unhex(s[2 * i])]

\* Buffer.from(s) of an ASCII string (utf8)
FromAscii(s) == s

\* struct.pack('<I', n)
PackLE32(n) ==
    << n % 256, (n \div 256) % 256, (n \div 65536) % 256, (n \div 16777216) % 256 >>

\* struct.pack('>I', n)
PackBE32(n) ==
    << (n \div 16777216) % 256, (n \div 65536) % 256, (n \div 256) % 256, n % 256 >>

\* ------------------------------------------------------------------------
\* CRC16-CCITT (./crc is not part of the sources; modelled from spec 4.1)
\* ------------------------------------------------------------------------

RECURSIVE Xor(_, _)
Xor(a, b) ==
    IF a = 0 THEN b
    ELSE IF b = 0 THEN a
    ELSE (((a % 2) + (b % 2)) % 2) + 2 * Xor(a \div 2, b \div 2)

\* one shift step: if the high bit is set, shift left and XOR with 0x1021
CrcShift1(acc) ==
    IF acc >= 32768 THEN Xor((acc * 2) % 65536, 4129) ELSE (acc * 2) % 65536

\* one byte: XOR it into the high byte, then eight shift steps
CrcByte(acc, b) ==
    CrcShift1(CrcShift1(CrcShift1(CrcShift1(
    CrcShift1(CrcShift1(CrcShift1(CrcShift1(Xor(acc, b * 256)))))))))

\* the bytes lo..hi in order, starting from acc (split in halves to keep the
\* evaluation shallow; the set constructor makes acc a value first)
RECURSIVE CrcRange(_, _, _, _)
CrcRange(bytes, lo, hi, acc) ==
    IF lo > hi THEN acc
    ELSE IF lo = hi THEN CrcByte(acc, bytes[lo])
    ELSE LET mid == (lo + hi) \div 2
         IN  CHOOSE r \in {CrcRange(bytes, mid + 1, hi, a) :
                              a \in {CrcRange(bytes, lo, mid, acc)}} : TRUE

crc16ccitt(bytes) == CrcRange(bytes, 1, Len(bytes), 0)

\* ------------------------------------------------------------------------
\* Frame building
\* ------------------------------------------------------------------------

P_SESSION == Rep(8, 48)

P_KEY == Rep(32, 48)

\* constructor: this.phone_id = '0000', this.device_pass = '00000000'
phone_id == Rep(4, 48)

device_pass == Rep(8, 48)

\* constructor argument device_id of the modelled instance: "aabbcc"
device_id == ToHex(<<170, 187, 204>>)

\* _get_time_stamp, for the clock reading now (seconds)
get_time_stamp(now) == ToHex(PackLE32(now))

\* _timer_value(minutes)
timer_value(minutes) ==
    IF minutes = 0 THEN Rep(8, 48) ELSE ToHex(PackLE32(minutes * 60))

\* _set_default_shutdown(seconds): the two clamping branches assign and fall
\* off the end of the function, which returns undefined
set_default_shutdown_value(seconds) ==
    IF seconds < 3600 THEN Undefined
    ELSE IF seconds > 86340 THEN Undefined
    ELSE ToHex(PackLE32(seconds))

\* _crc_sign_full_packet_com_key(p_data, p_key)
crc_sign_full_packet_com_key(p_data, p_key) ==
    LET crc1   == ToHex(PackBE32(crc16ccitt(FromHex(p_data))))
        sig1   == Substr(crc1, 6, 2) \o Substr(crc1, 4, 2)
        crc2   == ToHex(PackBE32(crc16ccitt(FromHex(sig1 \o ToHex(FromAscii(p_key))))))
    IN  p_data \o sig1 \o Substr(crc2, 6, 2) \o Substr(crc2, 4, 2)

\* "fef0 <len> 00 0232 <op>" ... the constant pieces of the templates
HdrTail == ToHex(<<52, 0, 1>> \o Zeros(9))

\* _login, lines 295-296
LoginData(now) ==
    ToHex(<<254, 240, 82, 0, 2, 50, 161, 0>>) \o P_SESSION \o HdrTail
    \o get_time_stamp(now) \o ToHex(Zeros(10) \o <<240, 254, 28, 0>>)
    \o phone_id \o Rep(4, 48) \o device_pass \o Rep(56, 48)

\* status, line 192
StatusData(p_session, now) ==
    ToHex(<<254, 240, 48, 0, 2, 50, 1, 3>>) \o ToStr(p_session) \o HdrTail
    \o get_time_stamp(now) \o ToHex(Zeros(10) \o <<240, 254>>)
    \o device_id \o Rep(2, 48)

\* turn_off, line 166: OFF + '00' + '00000000'
OffCommand == <<48>> \o Rep(2, 48) \o Rep(8, 48)

\* turn_on, line 171: ON + '00' + this._timer_value(duration)
OnCommand(duration) == <<49>> \o Rep(2, 48) \o timer_value(duration)

\* _run_power_command, lines 326-327
PowerData(p_session, now, command_type) ==
    ToHex(<<254, 240, 93, 0, 2, 50, 1, 2>>) \o ToStr(p_session) \o HdrTail
    \o get_time_stamp(now) \o ToHex(Zeros(10) \o <<240, 254>>)
    \o device_id \o Rep(2, 48) \o phone_id \o Rep(4, 48) \o device_pass
    \o Rep(56, 48) \o <<48, 49, 48, 54, 48, 48, 48>> \o command_type

\* set_default_shutdown, lines 178-179
ShutdownData(p_session, now, auto_close) ==
    ToHex(<<254, 240, 91, 0, 2, 50, 1, 2>>) \o ToStr(p_session) \o HdrTail
    \o get_time_stamp(now) \o ToHex(Zeros(10) \o <<240, 254>>)
    \o device_id \o Rep(2, 48) \o phone_id \o Rep(4, 48) \o device_pass
    \o Rep(56, 48) \o <<48, 52, 48, 52, 48, 48>> \o ToStr(auto_close)

\* the data string a handler builds and signs, by command
FrameData(kind, p_session, now, arg) ==
    CASE kind = "login"                -> LoginData(now)
      [] kind = "status"               -> StatusData(p_session, now)
      [] kind = "turn_off"             -> PowerData(p_session, now, OffCommand)
      [] kind = "turn_on"              -> PowerData(p_session, now, OnCommand(arg))
      [] kind = "set_default_shutdown" ->
             ShutdownData(p_session, now, set_default_shutdown_value(arg))

\* the buffer handed to socket.write: Buffer.from(signed data, 'hex')
Frame(kind, p_session, now, arg) ==
    FromHex(crc_sign_full_packet_com_key(FrameData(kind, p_session, now, arg), P_KEY))

\* ------------------------------------------------------------------------
\* Replies of the device on the TCP connection
\* ------------------------------------------------------------------------

\* a reply that carries the 4 token bytes at offset 8
ReplyWith(token) == <<254, 240, 82, 0, 2, 50, 161, 0>> \o token \o Zeros(8)

TokenA == <<17, 34, 51, 68>>

TokenB == <<85, 102, 119, 136>>

\* replies the device may send: two with different tokens, one cut inside
\* the token field and one cut before it
Replies ==
    { ReplyWith(TokenA), ReplyWith(TokenB),
      SubSeq(ReplyWith(TokenA), 1, 10), SubSeq(ReplyWith(TokenA), 1, 8) }

\* _login, line 307: data.toString('hex').substr(16, 8)
result_session(data) == Substr(ToHex(data), 16, 8)

\* ------------------------------------------------------------------------
\* Bounds and input sets
\* ------------------------------------------------------------------------

\* command calls made on the instance
MaxCalls == 2

\* TCP sockets the instance may open (net.connect calls)
MaxSockets == 3

\* calls of close()
MaxClose == 2

Calls == 1..MaxCalls

SockIds == 1..MaxSockets

\* clock readings (seconds since the epoch) at which frames are built
Times == {16909060, 1700000000}

\* the clock reading of the session runs
SessionTime == 16909060

\* arguments of turn_on (minutes) and set_default_shutdown (seconds)
Durations == {10}

Seconds == {100}

Kinds == {"turn_on", "turn_off", "status", "set_default_shutdown"}

ArgsOf(k) ==
    CASE k = "turn_on"              -> Durations
      [] k = "set_default_shutdown" -> Seconds
      [] OTHER                      -> {0}

SWITCHER_PORT == 9957

\* constructor argument switcher_ip of the modelled instance: "10.0.0.5"
switcher_ip == <<49, 48, 46, 48, 46, 48, 46, 53>>

OFF == 0

ON == 1

VARIABLES
    p_session,      \* this.p_session
    socket,         \* this.socket: 0 for null, else a socket id
    sockState,      \* per socket id: "none", "connecting", "open", "destroyed"
    onceData,       \* per socket: the registered once('data') listeners
    onceError,      \* per socket: the calls whose login registered once('error')
    unreplied,      \* per socket: frames sent that the device has not answered
    destroyCalls,   \* per socket: calls of socket.destroy()
    status_socket,  \* the UDP status socket: "bound" or "closed"
    statusCloseCalls, \* calls of status_socket.close()
    closeCalls,     \* calls of close()
    closeThrew,     \* a call of close() raised an error
    errListener,    \* the caller registered an 'error' listener on the instance
    now,            \* the clock reading used by _get_time_stamp
    pc,             \* per call: where the call waits
    kind,           \* per call: the command
    arg,            \* per call: its argument
    tok,            \* per call: the value _login resolved with
    gs,             \* per call: the socket _getsocket is connecting or returned
    lp,             \* per call: state of the promise created by _login
    events,         \* per call: the events emitted on its behalf, in order
    sent,           \* per call: its socket.write calls, in order
    sequential      \* the caller starts a command only when the earlier ones ended

sessVars ==
    << p_session, socket, sockState, onceData, onceError, unreplied,
       destroyCalls, status_socket, statusCloseCalls, closeCalls, closeThrew,
       errListener, now, pc, kind, arg, tok, gs, lp, events, sent, sequential >>

VARIABLES
    d_identifier,   \* discover: the argument identifier
    d_timeout,      \* discover: the argument discovery_timeout
    d_errListener,  \* discover: the caller registered an 'error' listener on the proxy
    d_socket,       \* discover: the local variable socket, "socket" or "null"
    d_open,         \* discover: the UDP socket is open (not closed)
    d_timer,        \* discover: the timeout, "armed", "cleared" or "fired"
    d_closeCalls,   \* discover: calls of socket.close()
    d_threw,        \* discover: socket.close() raised an error
    d_uncaught,     \* discover: an exception left an event handler, the process ended
    d_ready,        \* discover: the ready events emitted on the proxy
    d_errors,       \* discover: the error events emitted on the proxy
    d_endedBy,      \* discover: the event that closed the socket first
    d_proxyCloses,  \* discover: calls of proxy.close()
    d_last,         \* discover: the datagram handled last and what it caused
    ls_last         \* status listener: the datagram handled last and the event

udpVars ==
    << d_identifier, d_timeout, d_errListener, d_socket, d_open, d_timer,
       d_closeCalls, d_threw, d_uncaught, d_ready, d_errors, d_endedBy,
       d_proxyCloses, d_last, ls_last >>

VARIABLES
    cx_in,          \* codec runs: the command, token, clock and argument
    cx_out,         \* codec runs: the buffer built for socket.write
    dx_in,          \* decoder runs: the broadcast received and what it carries
    dx_out          \* decoder runs: the fields SwitcherUDPMessage extracts

codecVars == << cx_in, cx_out, dx_in, dx_out >>

vars == << sessVars, udpVars, codecVars >>

Finished == {"done", "rejected", "returned"}

InitSession ==
    /\ p_session = Null
    /\ socket = 0
    /\ sockState = [s \in SockIds |-> "none"]
    /\ onceData = [s \in SockIds |-> {}]
    /\ onceError = [s \in SockIds |-> {}]
    /\ unreplied = [s \in SockIds |-> 0]
    /\ destroyCalls = [s \in SockIds |-> 0]
    /\ status_socket = "bound"
    /\ statusCloseCalls = 0
    /\ closeCalls = 0
    /\ closeThrew = FALSE
    /\ errListener \in BOOLEAN
    /\ now = SessionTime
    /\ pc = [c \in Calls |-> "idle"]
    /\ kind = [c \in Calls |-> "status"]
    /\ arg = [c \in Calls |-> 0]
    /\ tok = [c \in Calls |-> Null]
    /\ gs = [c \in Calls |-> 0]
    /\ lp = [c \in Calls |-> "none"]
    /\ events = [c \in Calls |-> << >>]
    /\ sent = [c \in Calls |-> << >>]

\* ------------------------------------------------------------------------
\* Events and the decoding of a status reply
\* ------------------------------------------------------------------------

NaN == -1

\* parseInt(s, 16) of a string of hex digits
RECURSIVE ParseHex(_)
ParseHex(s) ==
    IF s = << >> THEN NaN
    ELSE IF Len(s) = 1 THEN Unhex(s[1])
    ELSE 16 * ParseHex(SubSeq(s, 1, Len(s) - 1)) + Unhex(s[Len(s)])

\* Buffer.prototype.toString() (utf8): an ASCII byte is one character, a lead
\* byte 0xc2..0xdf with the continuation byte after it is one character, and
\* any other byte decodes to U+FFFD (for a buffer in which no lead byte
\* 0xe0..0xf4 is followed by a continuation byte)
Utf8String(bytes) ==
    LET n == Len(bytes)
        Cont(i) == i >= 1 /\ i <= n /\ bytes[i] >= 128 /\ bytes[i] <= 191
        Lead2(i) == i >= 1 /\ i <= n /\ bytes[i] >= 194 /\ bytes[i] <= 223
        idx == SelectSeq([i \in 1..n |-> i], LAMBDA i : ~(Cont(i) /\ Lead2(i - 1)))
    IN  [k \in 1..Len(idx) |->
            LET i == idx[k]
            IN  IF bytes[i] < 128 THEN bytes[i]
                ELSE IF Lead2(i) /\ Cont(i + 1)
                     THEN (bytes[i] - 192) * 64 + (bytes[i + 1] - 128)
                     ELSE 65533]

\* s.replace(/\0/g, '')
RemoveNul(s) == SelectSeq(s, LAMBDA ch : ch # 0)

\* the 4 bytes of b in reverse order, parsed (lines 201, 203)
ParseLE32(b) ==
    ParseHex(Substr(b, 6, 2) \o Substr(b, 4, 2) \o Substr(b, 2, 2) \o Substr(b, 0, 2))

\* the 2 bytes of b in reverse order, parsed (line 205)
ParseLE16(b) == ParseHex(Substr(b, 2, 2) \o Substr(b, 0, 2))

\* status, lines 197-212: the object handed to the callback
DecodeStatusReply(data) ==
    [ name                     |-> RemoveNul(Substr(Utf8String(data), 40, 32)),
      state                    |-> IF Substr(ToHex(data), 150, 4) = Rep(4, 48)
                                   THEN OFF ELSE ON,
      remaining_seconds        |-> ParseLE32(Substr(ToHex(data), 178, 8)),
      default_shutdown_seconds |-> ParseLE32(Substr(ToHex(data), 194, 8)),
      power_consumption        |-> ParseLE16(Substr(ToHex(data), 154, 4)) ]

\* new ConnectionError(this.switcher_ip, this.SWITCHER_PORT), emitted as 'error'
ConnectionErrorEvent ==
    [type |-> "error", what |-> "ConnectionError", typeof |-> "object",
     val |-> <<switcher_ip, SWITCHER_PORT>>]

\* new Error('login failed due to an error: ...'), emitted as 'error'
LoginErrorEvent ==
    [type |-> "error", what |-> "login", typeof |-> "object", val |-> << >>]

\* what the once('data') listener of a command does with the reply data;
\* typeof is the JavaScript type of the value handed over: substr yields a
\* string, duration is the number the caller passed
ReplyEvent(k, a, data) ==
    CASE k = "turn_on"  ->
             [type |-> "state", what |-> "", typeof |-> "string",
              val |-> Substr(OnCommand(a), 0, 1)]
      [] k = "turn_off" ->
             [type |-> "state", what |-> "", typeof |-> "string",
              val |-> Substr(OffCommand, 0, 1)]
      [] k = "set_default_shutdown" ->
             [type |-> "duration", what |-> "", typeof |-> "number", val |-> a]
      [] k = "status"   ->
             [type |-> "status_cb", what |-> "", typeof |-> "object",
              val |-> DecodeStatusReply(data)]

\* ------------------------------------------------------------------------
\* The session machine.  An action is one turn of the event loop: a call by
\* the user or an event of a socket, with the continuations (microtasks) it
\* makes runnable, up to the point where every call waits for a socket again.
\* The operators below take and return the record St of the mutable state.
\* ------------------------------------------------------------------------

St ==
    [ p_session |-> p_session, socket |-> socket, sockState |-> sockState,
      onceData |-> onceData, onceError |-> onceError, unreplied |-> unreplied,
      pc |-> pc, kind |-> kind, arg |-> arg, tok |-> tok, gs |-> gs, lp |-> lp,
      events |-> events, sent |-> sent ]

Becomes(S) ==
    /\ p_session' = S.p_session
    /\ socket' = S.socket
    /\ sockState' = S.sockState
    /\ onceData' = S.onceData
    /\ onceError' = S.onceError
    /\ unreplied' = S.unreplied
    /\ pc' = S.pc
    /\ kind' = S.kind
    /\ arg' = S.arg
    /\ tok' = S.tok
    /\ gs' = S.gs
    /\ lp' = S.lp
    /\ events' = S.events
    /\ sent' = S.sent

\* the bound on sockets was not hit while computing S
WithinBounds(S) == \A c \in Calls : S.pc[c] # "capped"

NumSockets(S) == Cardinality({s \in SockIds : S.sockState[s] # "none"})

\* login frames written so far
NumLoginFrames(S) ==
    Cardinality({<<c, i>> \in Calls \X (1..2) :
                    i <= Len(S.sent[c]) /\ S.sent[c][i].kind = "login"})

SocketUsable_Never(S) == FALSE

\* _getsocket, line 230: this.socket && !this.socket.destroyed
SocketUsable(S) ==
    IF S.socket = 0 THEN FALSE ELSE S.sockState[S.socket] # "destroyed"

\* _getsocket, line 234 / _connect: net.connect opens a new socket and the
\* caller waits for it at connPc
Connect(S, c, connPc) ==
    IF NumSockets(S) < MaxSockets
    THEN [S EXCEPT !.sockState[NumSockets(S) + 1] = "connecting",
                   !.gs[c] = NumSockets(S) + 1,
                   !.pc[c] = connPc]
    ELSE [S EXCEPT !.pc[c] = "capped"]

\* socket.write(Buffer.from(data, 'hex')) on the socket gs[c]; the record
\* keeps what the frame is built from (see Frame), this.p_session at the
\* time of the write and the number of login frames written before
Write(S, c, k, t) ==
    [S EXCEPT !.sent[c] = Append(@, [sock |-> S.gs[c], kind |-> k, tok |-> t,
                                     now |-> now, arg |-> S.arg[c],
                                     cached |-> S.p_session,
                                     logins |-> NumLoginFrames(S)]),
              !.unreplied[S.gs[c]] =
                  IF S.sockState[S.gs[c]] = "open" THEN @ + 1 ELSE @]

\* lines 183-184, 195-196, 337-338: the command frame is written on gs[c]
\* and the one-shot reply listener registered
CommandWrite(S, c) ==
    LET W == Write(S, c, S.kind[c], S.tok[c])
    IN  [W EXCEPT !.onceData[S.gs[c]] = @ \cup {<<c, "cmd">>},
                  !.pc[c] = "C_wait"]

\* _run_power_command, lines 331-336: the second call of _getsocket
SecondGetSocket(S, c) ==
    IF SocketUsable(S)
    THEN CommandWrite([S EXCEPT !.gs[c] = S.socket], c)
    ELSE Connect(S, c, "C_conn2")

\* the command after its first _getsocket returned
AfterGetSocket(S, c) ==
    IF S.kind[c] \in {"turn_on", "turn_off"}
    THEN SecondGetSocket(S, c)
    ELSE CommandWrite(S, c)

\* the command after _login returned tok[c]: the frame is built and signed
\* and _getsocket called (lines 178-182, 192-194, 326-330)
SendCommand(S, c) ==
    IF SocketUsable(S)
    THEN AfterGetSocket([S EXCEPT !.gs[c] = S.socket], c)
    ELSE Connect(S, c, "C_conn1")

\* _login, lines 305-314: the login frame is written on gs[c], once('data')
\* registered on it and once('error') on this.socket
LoginWrite(S, c) ==
    LET W == Write(S, c, "login", P_SESSION)
    IN  [W EXCEPT !.onceData[S.gs[c]] = @ \cup {<<c, "login">>},
                  !.onceError = IF S.socket # 0
                                THEN [@ EXCEPT ![S.socket] = @ \cup {c}]
                                ELSE @,
                  !.pc[c] = "L_wait"]

\* _login, lines 292-304, when this.p_session is not set
LoginStart(S, c) ==
    LET P == [S EXCEPT !.lp[c] = "pending"]
    IN  IF SocketUsable(P)
        THEN LoginWrite([P EXCEPT !.gs[c] = P.socket], c)
        ELSE Connect(P, c, "L_conn")

\* _login, lines 317-321: the rejected login is caught, a login error is
\* emitted (emit throws when nobody listens, which rejects the command) and
\* this.p_session is returned to the command
LoginCatch(S, c) ==
    LET E == [S EXCEPT !.lp[c] = "rejected",
                       !.events[c] = Append(@, LoginErrorEvent)]
    IN  IF errListener
        THEN SendCommand([E EXCEPT !.tok[c] = E.p_session], c)
        ELSE [E EXCEPT !.pc[c] = "rejected"]

\* _login, lines 294 and 321: the login promise resolved with token t
LoginResolved(S, c, t) ==
    SendCommand([S EXCEPT !.p_session = t, !.lp[c] = "resolved", !.tok[c] = t], c)

\* the calls of the set cs continue one after the other
RECURSIVE EachCatch(_, _)
EachCatch(S, cs) ==
    IF cs = {} THEN S
    ELSE LET c == CHOOSE x \in cs : \A y \in cs : x <= y
         IN  EachCatch(LoginCatch(S, c), cs \ {c})

RECURSIVE EachResolved(_, _, _)
EachResolved(S, cs, t) ==
    IF cs = {} THEN S
    ELSE LET c == CHOOSE x \in cs : \A y \in cs : x <= y
         IN  EachResolved(LoginResolved(S, c, t), cs \ {c}, t)

\* turn_on, turn_off, status or set_default_shutdown is called: _login
\* returns the cached token or starts the login exchange
Start(c, k, a) ==
    /\ pc[c] = "idle"
    /\ IF c = 1 THEN TRUE ELSE pc[c - 1] # "idle"
    /\ sequential => \A d \in Calls : d # c => pc[d] \in Finished \cup {"idle"}
    /\ LET S == [St EXCEPT !.kind[c] = k, !.arg[c] = a]
           R == IF Truthy(S.p_session)
                THEN SendCommand([S EXCEPT !.tok[c] = S.p_session], c)
                ELSE LoginStart(S, c)
       IN  WithinBounds(R) /\ Becomes(R)
    /\ UNCHANGED << destroyCalls, status_socket, statusCloseCalls, closeCalls,
                    closeThrew, errListener, now, sequential >>
    /\ UNCHANGED << udpVars, codecVars >>

\* the call waiting for the connecting socket s
Waiting(s) == {c \in Calls : gs[c] = s /\ pc[c] \in {"L_conn", "C_conn1", "C_conn2"}}

\* the socket of a pending _connect becomes ready: _getsocket stores it in
\* this.socket and returns it, and the caller goes on
ConnectReady(s) ==
    /\ sockState[s] = "connecting"
    /\ LET S == [St EXCEPT !.sockState[s] = "open", !.socket = s]
           c == CHOOSE x \in Waiting(s) : TRUE
           R == CASE pc[c] = "L_conn"  -> LoginWrite(S, c)
                  [] pc[c] = "C_conn1" -> AfterGetSocket(S, c)
                  [] pc[c] = "C_conn2" -> CommandWrite(S, c)
       IN  WithinBounds(R) /\ Becomes(R)
    /\ UNCHANGED << destroyCalls, status_socket, statusCloseCalls, closeCalls,
                    closeThrew, errListener, now, sequential >>
    /\ UNCHANGED << udpVars, codecVars >>

SocketAfterConnectFail_Kept == socket

\* _getsocket, line 245: this.socket = null
SocketAfterConnectFail == 0

\* the pending _connect fails: _getsocket clears this.socket, emits a
\* ConnectionError and throws; _login's promise is rejected, the first
\* _getsocket of a command rejects the command, the second one is caught
ConnectFail(s) ==
    /\ sockState[s] = "connecting"
    /\ LET c == CHOOSE x \in Waiting(s) : TRUE
           S == [St EXCEPT !.sockState[s] = "destroyed",
                           !.socket = SocketAfterConnectFail,
                           !.events[c] = Append(@, ConnectionErrorEvent)]
           R == CASE pc[c] = "L_conn"  -> LoginCatch(S, c)
                  [] pc[c] = "C_conn1" -> [S EXCEPT !.pc[c] = "rejected"]
                  [] pc[c] = "C_conn2" -> [S EXCEPT !.pc[c] = "returned"]
       IN  WithinBounds(R) /\ Becomes(R)
    /\ UNCHANGED << destroyCalls, status_socket, statusCloseCalls, closeCalls,
                    closeThrew, errListener, now, sequential >>
    /\ UNCHANGED << udpVars, codecVars >>

\* a 'data' event on socket s: every registered one-shot listener runs once.
\* A command listener emits its notification; a login listener resolves the
\* login promise, _login stores the token and the command goes on
DataReply(s, data) ==
    /\ sockState[s] = "open"
    /\ unreplied[s] > 0
    /\ LET logins == {c \in Calls : <<c, "login">> \in onceData[s] /\ lp[c] = "pending"}
           cmds   == {c \in Calls : <<c, "cmd">> \in onceData[s]}
           S == [St EXCEPT
                   !.unreplied[s] = @ - 1,
                   !.onceData[s] = {},
                   !.pc = [c \in Calls |-> IF c \in cmds THEN "done" ELSE @[c]],
                   !.events = [c \in Calls |->
                       IF c \in cmds
                       THEN Append(@[c], ReplyEvent(kind[c], arg[c], data))
                       ELSE @[c]]]
           R == EachResolved(S, logins, result_session(data))
       IN  WithinBounds(R) /\ Becomes(R)
    /\ UNCHANGED << destroyCalls, status_socket, statusCloseCalls, closeCalls,
                    closeThrew, errListener, now, sequential >>
    /\ UNCHANGED << udpVars, codecVars >>

\* an 'error' event on the open socket s: the socket is destroyed and the
\* pending logins that registered once('error') on it are rejected
SocketError(s) ==
    /\ sockState[s] = "open"
    /\ LET fails == {c \in onceError[s] : lp[c] = "pending"}
           S == [St EXCEPT !.sockState[s] = "destroyed", !.onceError[s] = {}]
           R == EachCatch(S, fails)
       IN  WithinBounds(R) /\ Becomes(R)
    /\ UNCHANGED << destroyCalls, status_socket, statusCloseCalls, closeCalls,
                    closeThrew, errListener, now, sequential >>
    /\ UNCHANGED << udpVars, codecVars >>

\* the device closes the connection of the open socket s: the socket is
\* destroyed and no listener of the instance acts on it
RemoteClose(s) ==
    /\ sockState[s] = "open"
    /\ sockState' = [sockState EXCEPT ![s] = "destroyed"]
    /\ UNCHANGED << p_session, socket, onceData, onceError, unreplied,
                    destroyCalls, status_socket, statusCloseCalls, closeCalls,
                    closeThrew, errListener, now, pc, kind, arg, tok, gs, lp,
                    events, sent, sequential >>
    /\ UNCHANGED << udpVars, codecVars >>

\* line 222: a dgram socket has no property 'destroyed'; it reads undefined
status_socket_destroyed == FALSE

\* close(): destroys this.socket when it is set and not destroyed, then calls
\* status_socket.close(), which throws on a socket that is already closed
Close ==
    /\ closeCalls < MaxClose
    /\ closeCalls' = closeCalls + 1
    /\ IF SocketUsable(St)
       THEN /\ sockState' = [sockState EXCEPT ![socket] = "destroyed"]
            /\ destroyCalls' = [destroyCalls EXCEPT ![socket] = @ + 1]
       ELSE UNCHANGED << sockState, destroyCalls >>
    /\ IF ~status_socket_destroyed
       THEN /\ statusCloseCalls' = statusCloseCalls + 1
            /\ status_socket' = "closed"
            /\ closeThrew' = (closeThrew \/ status_socket = "closed")
       ELSE UNCHANGED << statusCloseCalls, status_socket, closeThrew >>
    /\ UNCHANGED << p_session, socket, onceData, onceError, unreplied,
                    errListener, now, pc, kind, arg, tok, gs, lp, events, sent,
                    sequential >>
    /\ UNCHANGED << udpVars, codecVars >>

\* ------------------------------------------------------------------------
\* UDP broadcasts: SwitcherUDPMessage, discover and the status listener
\* ------------------------------------------------------------------------

\* calls of proxy.close() on one discovery
MaxProxyClose == 2

\* SwitcherUDPMessage.is_valid(message_buffer), lines 43-44
is_valid(message_buffer) ==
    ~ (Substr(ToHex(message_buffer), 0, 4) # ToHex(<<254, 240>>)
       /\ Len(message_buffer) # 165)

extract_device_name(buf) == RemoveNul(Substr(Utf8String(buf), 40, 32))

extract_device_id(buf) == Substr(ToHex(buf), 36, 6)

extract_switch_state(buf) ==
    IF Substr(ToHex(buf), 266, 4) = Rep(4, 48) THEN OFF ELSE ON

extract_shutdown_remaining_seconds(buf) == ParseLE32(Substr(ToHex(buf), 294, 8))

extract_default_shutdown_seconds(buf) == ParseLE32(Substr(ToHex(buf), 310, 8))

extract_power_consumption(buf) == ParseLE16(Substr(ToHex(buf), 270, 4))

\* _hijack_status_report, lines 276-282: the object emitted as 'status'
StatusEvent(buf) ==
    [ name                     |-> extract_device_name(buf),
      state                    |-> extract_switch_state(buf),
      remaining_seconds        |-> extract_shutdown_remaining_seconds(buf),
      default_shutdown_seconds |-> extract_default_shutdown_seconds(buf),
      power_consumption        |-> extract_power_consumption(buf) ]

\* Datagrams that arrive on port 20002: len bytes that start with magic,
\* carry id at bytes 18..20 and name from character 40 on, zero elsewhere
MkDatagram(len, magic, id, name) ==
    [i \in 1..len |->
        IF i <= 2 THEN magic[i]
        ELSE IF i >= 19 /\ i <= 21 THEN id[i - 18]
        ELSE IF i >= 41 /\ i <= 40 + Len(name) THEN name[i - 40]
        ELSE 0]

DgLens == {10, 164, 165, 166}

DgMagics == {<<254, 240>>, <<254, 241>>}

DgIds == {<<170, 187, 204>>, <<1, 2, 3>>}

\* "sw1" and "zz"
DgNames == {<<115, 119, 49>>, <<122, 122>>}

Datagrams ==
    {MkDatagram(l, m, i, n) : l \in DgLens, m \in DgMagics, i \in DgIds, n \in DgNames}

\* rinfo.address: "10.0.0.5" and "10.0.0.9"
Addrs == {switcher_ip, <<49, 48, 46, 48, 46, 48, 46, 57>>}

\* identifier: none, "aabbcc", "sw1", "10.0.0.5", and "no", which nothing carries
Identifiers ==
    {Undefined, ToHex(<<170, 187, 204>>), <<115, 119, 49>>, switcher_ip, <<110, 111>>}

\* discovery_timeout: none, or one second
Timeouts == {Undefined, <<49>>}

\* lines 148-153: the if statement ends at its semicolon, so setTimeout is
\* called whatever discovery_timeout is
TimerArmed(discovery_timeout) == TRUE

\* line 129: the datagram is not the device looked for
NotLookedFor(identifier, device_id_, device_name, ipaddr) ==
    Truthy(identifier) /\ identifier # device_id_ /\ identifier # device_name
    /\ identifier # ipaddr

Ignored_NoFilter(identifier, raw_msg, ipaddr) == ~is_valid(raw_msg)

\* lines 123-132: the two early returns of the 'message' listener
Ignored(identifier, raw_msg, ipaddr) ==
    \/ ~is_valid(raw_msg)
    \/ NotLookedFor(identifier, extract_device_id(raw_msg),
                    extract_device_name(raw_msg), ipaddr)

\* lines 138, 145, 152: socket = null after socket.close()
SocketAfterClose == "null"

\* lines 155-161: proxy.close leaves the variable socket as it is
SocketAfterProxyClose == "socket"

OpenAfterClose_StaysOpen == TRUE

\* socket.close() of dgram: the socket stops receiving and is closed
OpenAfterClose == FALSE

NoDatagram == [msg |-> << >>, addr |-> << >>, valid |-> FALSE, emitted |-> FALSE]

NoStatus == [what |-> "none", msg |-> << >>]

UdpIdle ==
    /\ d_identifier = Undefined
    /\ d_timeout = Undefined
    /\ d_errListener = TRUE
    /\ d_socket = "null"
    /\ d_open = FALSE
    /\ d_timer = "cleared"
    /\ d_closeCalls = 0
    /\ d_threw = FALSE
    /\ d_uncaught = FALSE
    /\ d_ready = << >>
    /\ d_errors = 0
    /\ d_endedBy = "none"
    /\ d_proxyCloses = 0
    /\ d_last = NoDatagram
    /\ ls_last = NoStatus

\* Switcher.discover(log, identifier, discovery_timeout) has returned and
\* the caller has registered its listeners on the proxy
InitDiscover ==
    /\ d_identifier \in Identifiers
    /\ d_timeout \in Timeouts
    /\ d_errListener \in BOOLEAN
    /\ d_socket = "socket"
    /\ d_open = TRUE
    /\ d_timer = IF TimerArmed(d_timeout) THEN "armed" ELSE "cleared"
    /\ d_closeCalls = 0
    /\ d_threw = FALSE
    /\ d_uncaught = FALSE
    /\ d_ready = << >>
    /\ d_errors = 0
    /\ d_endedBy = "none"
    /\ d_proxyCloses = 0
    /\ d_last = NoDatagram
    /\ ls_last = NoStatus

\* socket.close() of the discovery socket, called by the event ev: a dgram
\* socket that is already closed throws ERR_SOCKET_DGRAM_NOT_RUNNING, and
\* the caller stops there
DiscoverSocketClose(ev, after) ==
    /\ d_closeCalls' = d_closeCalls + 1
    /\ IF d_open
       THEN /\ d_open' = OpenAfterClose
            /\ d_socket' = after
            /\ d_endedBy' = IF d_endedBy = "none" THEN ev ELSE d_endedBy
            /\ UNCHANGED << d_threw, d_uncaught >>
       ELSE /\ d_threw' = TRUE
            /\ d_uncaught' = (d_uncaught \/ ev # "proxy")
            /\ UNCHANGED << d_open, d_socket, d_endedBy >>

\* the 'message' listener of discover, lines 121-140
DiscoverDatagram(raw_msg, ipaddr) ==
    /\ d_open
    /\ ~d_uncaught
    /\ IF Ignored(d_identifier, raw_msg, ipaddr)
       THEN /\ d_last' = [msg |-> raw_msg, addr |-> ipaddr,
                          valid |-> is_valid(raw_msg), emitted |-> FALSE]
            /\ UNCHANGED << d_ready, d_timer, d_closeCalls, d_open, d_socket,
                            d_endedBy, d_threw, d_uncaught >>
       ELSE /\ d_last' = [msg |-> raw_msg, addr |-> ipaddr,
                          valid |-> is_valid(raw_msg), emitted |-> TRUE]
            /\ d_ready' = Append(d_ready, [device_id |-> extract_device_id(raw_msg),
                                           switcher_ip |-> ipaddr])
            /\ d_timer' = IF d_timer = "armed" THEN "cleared" ELSE d_timer
            /\ DiscoverSocketClose("match", SocketAfterClose)
    /\ UNCHANGED << d_identifier, d_timeout, d_errListener, d_errors,
                    d_proxyCloses, ls_last >>
    /\ UNCHANGED << sessVars, codecVars >>

\* the 'error' listener of discover, lines 141-146: emit throws when the
\* proxy has no 'error' listener, and the exception leaves the handler
DiscoverError ==
    /\ d_open
    /\ ~d_uncaught
    /\ IF d_errListener
       THEN /\ d_errors' = d_errors + 1
            /\ d_timer' = IF d_timer = "armed" THEN "cleared" ELSE d_timer
            /\ DiscoverSocketClose("error", SocketAfterClose)
       ELSE /\ d_uncaught' = TRUE
            /\ UNCHANGED << d_errors, d_timer, d_closeCalls, d_open, d_socket,
                            d_endedBy, d_threw >>
    /\ UNCHANGED << d_identifier, d_timeout, d_errListener, d_ready,
                    d_proxyCloses, d_last, ls_last >>
    /\ UNCHANGED << sessVars, codecVars >>

\* the timeout callback, lines 149-153
DiscoverTimeout ==
    /\ d_timer = "armed"
    /\ ~d_uncaught
    /\ d_timer' = "fired"
    /\ IF d_socket = "null"
       THEN /\ d_threw' = TRUE
            /\ d_uncaught' = TRUE
            /\ UNCHANGED << d_closeCalls, d_open, d_socket, d_endedBy >>
       ELSE DiscoverSocketClose("timeout", SocketAfterClose)
    /\ UNCHANGED << d_identifier, d_timeout, d_errListener, d_ready, d_errors,
                    d_proxyCloses, d_last, ls_last >>
    /\ UNCHANGED << sessVars, codecVars >>

\* proxy.close(), lines 155-161
ProxyClose ==
    /\ d_proxyCloses < MaxProxyClose
    /\ ~d_uncaught
    /\ d_proxyCloses' = d_proxyCloses + 1
    /\ IF d_socket # "null"
       THEN DiscoverSocketClose("proxy", SocketAfterProxyClose)
       ELSE UNCHANGED << d_closeCalls, d_open, d_socket, d_endedBy, d_threw,
                         d_uncaught >>
    /\ UNCHANGED << d_identifier, d_timeout, d_errListener, d_timer, d_ready,
                    d_errors, d_last, ls_last >>
    /\ UNCHANGED << sessVars, codecVars >>

\* the 'message' listener of the status socket, lines 271-283
StatusDatagram(raw_msg) ==
    /\ status_socket = "bound"
    /\ ls_last' = IF ~is_valid(raw_msg)
                  THEN [what |-> "ignored", msg |-> raw_msg]
                  ELSE [what |-> "status", msg |-> raw_msg,
                        val |-> StatusEvent(raw_msg)]
    /\ UNCHANGED << d_identifier, d_timeout, d_errListener, d_socket, d_open,
                    d_timer, d_closeCalls, d_threw, d_uncaught, d_ready,
                    d_errors, d_endedBy, d_proxyCloses, d_last >>
    /\ UNCHANGED << sessVars, codecVars >>

\* the 'error' listener of the status socket, lines 284-286: the error is
\* wrapped and emitted, the socket stays as it is
StatusListenerError ==
    /\ status_socket = "bound"
    /\ ls_last' = [what |-> "error", msg |-> << >>]
    /\ UNCHANGED << d_identifier, d_timeout, d_errListener, d_socket, d_open,
                    d_timer, d_closeCalls, d_threw, d_uncaught, d_ready,
                    d_errors, d_endedBy, d_proxyCloses, d_last >>
    /\ UNCHANGED << sessVars, codecVars >>

\* ------------------------------------------------------------------------
\* Codec runs: one frame is built, signed and converted for socket.write
\* ------------------------------------------------------------------------

\* values this.p_session can hold: null, or what a reply yields
TokenValues == {Null} \cup {result_session(r) : r \in Replies}

CodecDurations == {0, 10}

CodecSeconds == {100, 3599, 3600, 7200, 86340, 86341, 999999}

CodecInputs ==
    [kind : {"login"}, tok : {Null}, now : Times, arg : {0}]
    \cup [kind : {"status", "turn_off"}, tok : TokenValues, now : Times, arg : {0}]
    \cup [kind : {"turn_on"}, tok : TokenValues, now : Times, arg : CodecDurations]
    \cup [kind : {"set_default_shutdown"}, tok : TokenValues, now : Times,
          arg : CodecSeconds]

NotBuilt == << -3 >>

NotDecoded == [what |-> "none"]

DecoderIdle ==
    /\ dx_in = [field |-> "none"]
    /\ dx_out = NotDecoded

CodecIdle ==
    /\ cx_in = [kind |-> "login", tok |-> Null, now |-> SessionTime, arg |-> 0]
    /\ cx_out = NotBuilt
    /\ DecoderIdle

InitCodecRun ==
    /\ cx_in \in CodecInputs
    /\ cx_out = NotBuilt
    /\ DecoderIdle

\* the handler builds the data string, signs it and converts it
BuildFrame ==
    /\ cx_out = NotBuilt
    /\ cx_out' = Frame(cx_in.kind, cx_in.tok, cx_in.now, cx_in.arg)
    /\ UNCHANGED << cx_in, dx_in, dx_out, sessVars, udpVars >>

\* ------------------------------------------------------------------------
\* Decoder runs: new SwitcherUDPMessage(buf) and its extract_* methods
\* ------------------------------------------------------------------------

\* String(n) of a non-negative integer
RECURSIVE ToDecimal(_)
ToDecimal(n) ==
    IF n < 10 THEN << 48 + n >> ELSE ToDecimal(n \div 10) \o << 48 + (n % 10) >>

\* ((num >> k) & 0xFF) >>> 0, for 0 <= num < 2^31, where the conversion of
\* num to a 32-bit integer changes nothing
ShiftMask(num, k) == (num \div (2 ^ k)) % 256

\* inet_ntoa(num), lines 94-100
inet_ntoa(num) ==
    ToDecimal(ShiftMask(num, 24)) \o <<46>> \o ToDecimal(ShiftMask(num, 16))
    \o <<46>> \o ToDecimal(ShiftMask(num, 8)) \o <<46>> \o ToDecimal(ShiftMask(num, 0))

\* extract_ip_addr, lines 47-55
extract_ip_addr(buf) ==
    LET ip_addr_section == Substr(ToHex(buf), 152, 8)
    IN  inet_ntoa(ParseHex(Substr(ip_addr_section, 0, 2) \o Substr(ip_addr_section, 2, 2)
                           \o Substr(ip_addr_section, 4, 2) \o Substr(ip_addr_section, 6, 2)))

\* every extract_* method applied to one SwitcherUDPMessage
DecodeAll(buf) ==
    [ what                     |-> "decoded",
      device_id                |-> extract_device_id(buf),
      device_name              |-> extract_device_name(buf),
      ip_addr                  |-> extract_ip_addr(buf),
      state                    |-> extract_switch_state(buf),
      power_consumption        |-> extract_power_consumption(buf),
      remaining_seconds        |-> extract_shutdown_remaining_seconds(buf),
      default_shutdown_seconds |-> extract_default_shutdown_seconds(buf) ]

\* A 165-byte broadcast: the magic, the bytes id at offsets 18..20, then the
\* bytes of one field written at offset at, zero elsewhere
MkBroadcast(id, at, bytes) ==
    [i \in 1..165 |->
        IF i > at /\ i <= at + Len(bytes) THEN bytes[i - at]
        ELSE IF i <= 2 THEN <<254, 240>>[i]
        ELSE IF i >= 19 /\ i <= 21 THEN id[i - 18]
        ELSE 0]

\* the device ids of the broadcasts: 000000 and c3a901
BaseIds == {<<0, 0, 0>>, <<195, 169, 1>>}

\* "sw1" and "Boiler", followed by NULs up to 32 bytes
NameValues ==
    {<<115, 119, 49>>, <<66, 111, 105, 108, 101, 114>>}

\* one field, the bytes written for it, the offset they are written at and
\* the value they stand for: a string (str) or a number (num)
FieldTests ==
    {[field |-> "device_id", at |-> 18, bytes |-> <<170, 187, 204>>,
      str |-> <<97, 97, 98, 98, 99, 99>>, num |-> NaN],
     [field |-> "device_id", at |-> 18, bytes |-> <<1, 2, 3>>,
      str |-> <<48, 49, 48, 50, 48, 51>>, num |-> NaN]}
    \cup {[field |-> "device_name", at |-> a, bytes |-> n \o Zeros(32 - Len(n)),
           str |-> n, num |-> NaN] : a \in {20, 40}, n \in NameValues}
    \cup {[field |-> "ip_addr", at |-> 76, bytes |-> <<10, 0, 0, 5>>,
           str |-> <<49, 48, 46, 48, 46, 48, 46, 53>>, num |-> NaN],
          [field |-> "ip_addr", at |-> 76, bytes |-> <<100, 64, 1, 20>>,
           str |-> <<49, 48, 48, 46, 54, 52, 46, 49, 46, 50, 48>>, num |-> NaN],
          [field |-> "ip_addr", at |-> 76, bytes |-> <<127, 255, 255, 255>>,
           str |-> <<49, 50, 55, 46, 50, 53, 53, 46, 50, 53, 53, 46, 50, 53, 53>>, num |-> NaN]}
    \cup {[field |-> "state", at |-> 133, bytes |-> <<0, 0>>, str |-> << >>, num |-> OFF],
          [field |-> "state", at |-> 133, bytes |-> <<0, 1>>, str |-> << >>, num |-> ON],
          [field |-> "state", at |-> 133, bytes |-> <<1, 0>>, str |-> << >>, num |-> ON]}
    \cup {[field |-> "power_consumption", at |-> 135, bytes |-> <<0, 0>>, str |-> << >>, num |-> 0],
          [field |-> "power_consumption", at |-> 135, bytes |-> <<208, 7>>, str |-> << >>, num |-> 2000],
          [field |-> "power_consumption", at |-> 135, bytes |-> <<255, 255>>,
           str |-> << >>, num |-> 65535]}
    \cup {[field |-> "remaining_seconds", at |-> 147, bytes |-> <<0, 0, 0, 0>>,
           str |-> << >>, num |-> 0],
          [field |-> "remaining_seconds", at |-> 147, bytes |-> <<16, 14, 0, 0>>,
           str |-> << >>, num |-> 3600],
          [field |-> "remaining_seconds", at |-> 147, bytes |-> <<255, 255, 255, 127>>,
           str |-> << >>, num |-> 2147483647]}
    \cup {[field |-> "default_shutdown_seconds", at |-> 155, bytes |-> <<16, 14, 0, 0>>,
           str |-> << >>, num |-> 3600],
          [field |-> "default_shutdown_seconds", at |-> 155, bytes |-> <<68, 81, 1, 0>>,
           str |-> << >>, num |-> 86340]}

DecodeInputs ==
    {[field |-> f.field, at |-> f.at, str |-> f.str, num |-> f.num, id |-> i,
      buf |-> MkBroadcast(i, f.at, f.bytes)] : f \in FieldTests, i \in BaseIds}

InitDecodeRun ==
    /\ cx_in = [kind |-> "login", tok |-> Null, now |-> SessionTime, arg |-> 0]
    /\ cx_out = NotBuilt
    /\ dx_in \in DecodeInputs
    /\ dx_out = NotDecoded

\* the broadcast is wrapped and every field extracted
Decode ==
    /\ dx_in.field # "none"
    /\ dx_out = NotDecoded
    /\ dx_out' = DecodeAll(dx_in.buf)
    /\ UNCHANGED << cx_in, cx_out, dx_in, sessVars, udpVars >>

\* ------------------------------------------------------------------------
\* Specifications
\* ------------------------------------------------------------------------

Next ==
    \/ \E c \in Calls, k \in Kinds : \E a \in ArgsOf(k) : Start(c, k, a)
    \/ \E s \in SockIds : ConnectReady(s)
    \/ \E s \in SockIds : ConnectFail(s)
    \/ \E s \in SockIds, data \in Replies : DataReply(s, data)
    \/ \E s \in SockIds : SocketError(s)
    \/ \E s \in SockIds : RemoteClose(s)
    \/ Close

NextUdp ==
    \/ \E m \in Datagrams, a \in Addrs : DiscoverDatagram(m, a)
    \/ DiscoverError
    \/ DiscoverTimeout
    \/ ProxyClose

NextStatus ==
    \/ \E m \in Datagrams : StatusDatagram(m)
    \/ StatusListenerError
    \/ Close

NextCodec == BuildFrame

\* commands, socket events and close() in any order
Init == InitSession /\ sequential = FALSE /\ UdpIdle /\ CodecIdle

Spec == Init /\ [][Next]_vars

\* the same, for a caller that starts a command only after the earlier ones
\* have ended
InitSeq == InitSession /\ sequential = TRUE /\ UdpIdle /\ CodecIdle

SpecSeq == InitSeq /\ [][Next]_vars

\* one discovery
InitUdp == InitSession /\ sequential = FALSE /\ InitDiscover /\ CodecIdle

SpecUdp == InitUdp /\ [][NextUdp]_vars

\* the status listener of one instance, and close()
InitStatus == InitSession /\ sequential = FALSE /\ UdpIdle /\ CodecIdle

SpecStatus == InitStatus /\ [][NextStatus]_vars

\* one frame built from each input
InitCodec == InitSession /\ sequential = FALSE /\ UdpIdle /\ InitCodecRun

SpecCodec == InitCodec /\ [][NextCodec]_vars

\* one broadcast decoded from each input
NextDecode == Decode

InitDecode == InitSession /\ sequential = FALSE /\ UdpIdle /\ InitDecodeRun

SpecDecode == InitDecode /\ [][NextDecode]_vars

\* ------------------------------------------------------------------------
\* Properties
\* ------------------------------------------------------------------------

\* Buffer.from(data, 'hex'), lines 183, 195, 305, 337, up to the trailer:
\* the bytes of the write recorded as f that come from its data string
WrittenBody(f) == FromHex(FrameData(f.kind, f.tok, f.now, f.arg))

\* the command (non-login) frames call c has written
CommandFrames(c) == SelectSeq(sent[c], LAMBDA f : f.kind # "login")

\* C1: every command frame (status, turn_on, turn_off, set_default_shutdown)
\* is written only while p_session holds a token, and is built from a token:
\* after a failed login no command frame is written and no frame is built
\* from an absent token.
C1_CommandsOnlyWithToken ==
    \A c \in Calls : \A i \in 1..Len(sent[c]) :
        sent[c][i].kind # "login" =>
            Truthy(sent[c][i].cached) /\ Truthy(sent[c][i].tok)

\* C2: when a command starts only after the reply to the one before arrived,
\* and the first command followed the one login, which succeeded, then the
\* token field (bytes 8..11) of the second command frame equals that of the
\* first, one login frame has been written in total, and both frames went
\* out on the same connection unless that connection was destroyed.
C2_SequentialReuse ==
    \A c1 \in Calls, c2 \in Calls :
        (/\ c1 < c2
         /\ pc[c1] = "done"
         /\ CommandFrames(c1) # << >>
         /\ CommandFrames(c2) # << >>
         /\ Truthy(CommandFrames(c1)[1].tok)
         /\ CommandFrames(c1)[1].logins = 1)
        => LET f1 == CommandFrames(c1)[1]
               f2 == CommandFrames(c2)[1]
           IN  /\ SubSeq(WrittenBody(f2), 9, 12) = SubSeq(WrittenBody(f1), 9, 12)
               /\ f2.logins = 1
               /\ NumLoginFrames(St) = 1
               /\ (f1.sock = f2.sock \/ sockState[f1.sock] = "destroyed")

\* C2, the case: two commands one after the other with one login, the
\* second written on the connection of the first
C2_Witness ==
    /\ pc[1] = "done"
    /\ pc[2] = "done"
    /\ CommandFrames(1) # << >>
    /\ CommandFrames(2) # << >>
    /\ CommandFrames(1)[1].tok = ToHex(TokenA)
    /\ CommandFrames(1)[1].logins = 1
    /\ CommandFrames(2)[1].sock = CommandFrames(1)[1].sock

\* C3: once p_session holds a token its value never changes.
C3_TokenSetOnce == [][Truthy(p_session) => p_session' = p_session]_vars

\* C4: close() is idempotent: no call of close() raises an error, the TCP
\* socket is destroyed at most once and the status socket closed at most once.
C4_CloseIdempotent ==
    /\ ~closeThrew
    /\ statusCloseCalls <= 1
    /\ \A s \in SockIds : destroyCalls[s] <= 1

\* C5: in a run of discover in which a matching broadcast was emitted, the
\* timeout fired or a listener error was emitted, close was called on the
\* discovery socket exactly once, and never on the socket already closed.
C5_ClosedExactlyOnce ==
    (d_timer = "fired" \/ Len(d_ready) > 0 \/ d_errors > 0)
        => (d_closeCalls = 1 /\ ~d_threw)

\* C6: a step of discover emits ready only for a datagram that is_valid
\* accepts and, when an identifier was given, whose device id, device name
\* or source address equals it; an accepted datagram that equals none of the
\* three emits nothing and leaves the socket open and the timeout armed.
C6_ReadyOnlyForMatch ==
    [][ LET m == d_last'.msg
            matches == \/ d_identifier = extract_device_id(m)
                       \/ d_identifier = extract_device_name(m)
                       \/ d_identifier = d_last'.addr
        IN  /\ d_ready' # d_ready
                => /\ d_last'.valid
                   /\ Truthy(d_identifier) => matches
            /\ (d_last' # d_last /\ d_last'.valid /\ Truthy(d_identifier)
                /\ ~matches)
                => /\ d_ready' = d_ready
                   /\ d_open' /\ d_open
                   /\ d_timer' = d_timer
                   /\ d_closeCalls' = d_closeCalls ]_vars

\* C6, the case: an identifier was given and the ready event was emitted for
\* a datagram from the address that equals it
C6_Witness ==
    /\ Truthy(d_identifier)
    /\ d_last.emitted
    /\ d_identifier = d_last.addr
    /\ d_identifier # extract_device_id(d_last.msg)
    /\ Len(d_ready) = 1

\* C7: one call of discover emits at most one ready event, and none once the
\* timeout has fired, a listener error was emitted, a match was emitted or
\* the socket was closed.
C7_AtMostOneReady ==
    [][ /\ Len(d_ready') <= 1
        /\ (d_timer = "fired" \/ d_errors > 0 \/ Len(d_ready) > 0
            \/ d_closeCalls > 0)
               => d_ready' = d_ready ]_vars

\* C7, the case: the one ready event was emitted and the socket closed by it
C7_Witness ==
    /\ Len(d_ready) = 1
    /\ d_endedBy = "match"
    /\ d_closeCalls = 1
    /\ ~d_open
    /\ d_timer = "cleared"

\* C8: is_valid(buf) is true if and only if buf has exactly 165 bytes and
\* starts with 0xFE 0xF0.
C8_IsValidIff ==
    d_last.msg # << >>
        => (d_last.valid <=> (/\ Len(d_last.msg) = 165
                              /\ SubSeq(d_last.msg, 1, 2) = <<254, 240>>))

\* C9: the frame of set_default_shutdown(seconds) carries, after its
\* template, the 4 little-endian bytes of seconds clamped to [3600, 86340].
C9_ClampedEncoding ==
    (cx_out # NotBuilt /\ cx_in.kind = "set_default_shutdown"
     /\ Len(cx_in.tok) = 8)
        => LET s  == cx_in.arg
               cl == IF s < 3600 THEN 3600 ELSE IF s > 86340 THEN 86340 ELSE s
           IN  /\ Len(cx_out) = 91
               /\ SubSeq(cx_out, 84, 87) =
                      << cl % 256, (cl \div 256) % 256, (cl \div 65536) % 256,
                         (cl \div 16777216) % 256 >>

\* C10: every buffer written is the complete template of its command
\* followed by the 4-byte trailer: the low 2 bytes of crc16(body), low byte
\* first, then the low 2 bytes of crc16(those 2 bytes ++ key), low byte first.
C10_SignedFrame ==
    cx_out # NotBuilt
        => LET n    == Len(cx_out)
               full == CASE cx_in.kind = "login"  -> 82
                         [] cx_in.kind = "status" -> 48
                         [] cx_in.kind \in {"turn_on", "turn_off"} -> 93
                         [] cx_in.kind = "set_default_shutdown" -> 91
           IN  /\ n = full
               /\ LET body == SubSeq(cx_out, 1, n - 4)
                      c1   == crc16ccitt(body)
                      t1   == << c1 % 256, (c1 \div 256) % 256 >>
                      c2   == crc16ccitt(t1 \o Rep(32, 48))
                  IN  SubSeq(cx_out, n - 3, n)
                          = t1 \o << c2 % 256, (c2 \div 256) % 256 >>

\* C11: when the pending connect of a socket fails, an error event carrying
\* a ConnectionError with the device ip and port 9957 is emitted, this.socket
\* is cleared and no frame is written in that step; a command that starts
\* while this.socket is cleared opens a new connection.
C11_ConnectFailure ==
    [][ /\ \A s \in SockIds :
            (sockState[s] = "connecting" /\ sockState'[s] = "destroyed")
                => /\ socket' = 0
                   /\ sent' = sent
                   /\ \E c \in Calls :
                        /\ Len(events'[c]) > Len(events[c])
                        /\ events'[c][Len(events[c]) + 1] =
                               [type |-> "error", what |-> "ConnectionError",
                                typeof |-> "object",
                                val |-> <<switcher_ip, 9957>>]
        /\ (socket = 0 /\ \E c \in Calls : pc[c] = "idle" /\ pc'[c] # "idle")
                => Cardinality({s \in SockIds : sockState'[s] # "none"})
                       = Cardinality({s \in SockIds : sockState[s] # "none"}) + 1
      ]_vars

\* C11, the case: the connect of the first command failed, a second command
\* started after it and waits for its own new connection
C11_Witness ==
    /\ sockState[1] = "destroyed"
    /\ pc[1] = "rejected"
    /\ events[1] # << >>
    /\ events[1][1].what = "ConnectionError"
    /\ sent[1] = << >>
    /\ socket = 0
    /\ pc[2] = "L_conn"
    /\ sockState[gs[2]] = "connecting"

\* C12: in a step in which the login exchange of a call fails, _login does
\* not reject: one login error event is emitted for the call, p_session
\* stays as it was, and the call goes on with that value.
C12_LoginFailureResolves ==
    [][ \A c \in Calls :
            (lp[c] = "pending" /\ lp'[c] = "rejected")
                => /\ pc'[c] # "rejected"
                   /\ p_session' = p_session
                   /\ tok'[c] = p_session
                   /\ Cardinality({i \in 1..Len(events'[c]) :
                                      events'[c][i].what = "login"}) = 1
      ]_vars

\* C13: a turn_on, turn_off or set_default_shutdown call whose reply arrived
\* has emitted exactly one notification, carrying the value sent: the number
\* ON for turn_on, the number OFF for turn_off, and for set_default_shutdown
\* the seconds clamped to [3600, 86340].
C13_NotificationValue ==
    \A c \in Calls :
        (pc[c] = "done" /\ kind[c] # "status")
            => LET ns == SelectSeq(events[c],
                                   LAMBDA e : e.type \in {"state", "duration"})
                   s  == arg[c]
                   cl == IF s < 3600 THEN 3600
                         ELSE IF s > 86340 THEN 86340 ELSE s
               IN  /\ Len(ns) = 1
                   /\ ns[1].type = IF kind[c] = "set_default_shutdown"
                                   THEN "duration" ELSE "state"
                   /\ ns[1].typeof = "number"
                   /\ ns[1].val = CASE kind[c] = "turn_on"  -> ON
                                    [] kind[c] = "turn_off" -> OFF
                                    [] OTHER                -> cl

\* C14: a 165-byte broadcast that carries a known value at the documented
\* offset of a field (device_id 18, device_name 20, source address 76, state
\* 133, power 135, remaining seconds 147, default shutdown 155) decodes to
\* exactly that value for the field.
C14_DecodeAtOffsets ==
    (/\ dx_out # NotDecoded
     /\ dx_in.at = CASE dx_in.field = "device_id" -> 18
                     [] dx_in.field = "device_name" -> 20
                     [] dx_in.field = "ip_addr" -> 76
                     [] dx_in.field = "state" -> 133
                     [] dx_in.field = "power_consumption" -> 135
                     [] dx_in.field = "remaining_seconds" -> 147
                     [] dx_in.field = "default_shutdown_seconds" -> 155)
        => IF dx_in.field \in {"device_id", "device_name", "ip_addr"}
           THEN dx_out[dx_in.field] = dx_in.str
           ELSE dx_out[dx_in.field] = dx_in.num

\* C15: a failure is never retried automatically: one invocation of a
\* command has at most one connect attempt that failed or is still pending,
\* and has emitted at most one ConnectionError; a connect after a failed one
\* belongs to a new command call.
C15_NoAutomaticRetry ==
    \A c \in Calls :
        LET errs == Cardinality({i \in 1..Len(events[c]) :
                                    events[c][i].what = "ConnectionError"})
            pending == IF pc[c] \in {"L_conn", "C_conn1", "C_conn2"} THEN 1 ELSE 0
        IN  errs + pending <= 1

\* C16: login happens at most once per connection under every interleaving:
\* at most one login frame has been written on each TCP socket, and at most
\* one login exchange (frame written, reply awaited) is in flight at a time.
C16_OneLoginPerConnection ==
    /\ \A s \in SockIds :
           Cardinality({<<c, i>> \in Calls \X (1..2) :
                           /\ i <= Len(sent[c])
                           /\ sent[c][i].kind = "login"
                           /\ sent[c][i].sock = s}) <= 1
    /\ Cardinality({c \in Calls : pc[c] = "L_wait" /\ lp[c] = "pending"}) <= 1

\* C17: at most one exchange is outstanding per session: at most one one-shot
\* reply listener is registered on each TCP socket, and a data event
\* completes at most one command.
C17_OneWaiterPerSocket ==
    [][ /\ \A s \in SockIds : Cardinality(onceData'[s]) <= 1
        /\ Cardinality({c \in Calls : pc[c] # "done" /\ pc'[c] = "done"}) <= 1 ]_vars

\* C18: a login reply without a complete token is a login failure: in every
\* state p_session is absent or the 8 hex digits of bytes 8..11 of a login
\* reply, and a login that was resolved was resolved with such a token.
C18_TokenCompleteOrAbsent ==
    LET Complete(x) == \E data \in Replies :
                           Len(data) >= 12 /\ x = ToHex(SubSeq(data, 9, 12))
    IN  /\ p_session = Null \/ Complete(p_session)
        /\ \A c \in Calls : lp[c] = "resolved" => Complete(tok[c])

\* C19: the instance owns at most one open TCP connection: after every step
\* at most one socket is open, every open socket is the one this.socket
\* refers to, and a call of close() leaves no socket open.
C19_OneOpenConnection ==
    [][ /\ Cardinality({s \in SockIds : sockState'[s] = "open"}) <= 1
        /\ \A s \in SockIds : sockState'[s] = "open" => socket' = s
        /\ closeCalls' > closeCalls
              => \A s \in SockIds : sockState'[s] # "open" ]_vars

\* C20: the timer that closes the discovery socket is armed only when a
\* discovery timeout was supplied: without one the timer is never armed, never
\* fires, and the socket is never closed by it.
C20_TimerOnlyWithTimeout ==
    ~Truthy(d_timeout)
        => /\ d_timer \notin {"armed", "fired"}
           /\ d_endedBy # "timeout"

====
